---- MODULE Spec2Model ----
(***************************************************************************)
(* multiping: parallel ping with per-target early stop (src/engine.rs),    *)
(* classification of the best round-trip time (src/main.rs, src/status.rs) *)
(* and the exit code of the Nagios-style check.                            *)
(*                                                                         *)
(* Numbers.  An f64 is modelled as an integer (one unit of latency); NaN   *)
(* is the reserved value NaN, and every comparison of f64 values goes      *)
(* through FGt/FGe/FLe/FLt, which are false as soon as one side is NaN.    *)
(* Rounding of floating point arithmetic is not modelled.                  *)
(* Option<T>: None is <<>>, Some(x) is <<x>>.                              *)
(* Vectors are 1-based sequences here (Rust's index i is i+1 below).       *)
(*                                                                         *)
(* Five specifications share the actions:                                  *)
(*   Spec      - run(): arguments, Targets::build, ping_all over live      *)
(*               probe streams, measure, evaluate, exit.  Every            *)
(*               interleaving of the samplers.                             *)
(*   SpecIter  - measure over one given finite stream (stream::iter_ok, as *)
(*               the unit tests of engine.rs build them), all sequences.   *)
(*   SpecEval  - evaluate over an arbitrary PingTimes value (as the unit   *)
(*               tests of tests.rs build them with pt()).                  *)
(*   SpecBuild - Targets::build over host lists of literals and names,     *)
(*               every answer of the resolver, every family filter.        *)
(*   SpecLive  - measure over probe streams that never fail, with the      *)
(*               fairness of a reactor that keeps polling.                 *)
(***************************************************************************)
EXTENDS Integers, Sequences, FiniteSets, TLC

\* ---------------------------------------------------------------- bounds
\* latencies drawn for probe replies are 0..MaxLat
MaxLat == 1
\* thresholds (warn, crit) are drawn from 0..MaxThr
MaxThr == 1
\* run() pings at most MaxTargets addresses
MaxTargets == 2
\* a given finite stream (SpecIter) has at most MaxIterLen items
MaxIterLen == 6
\* a PingTimes value handed to evaluate (SpecEval) has at most MaxTimes entries
MaxTimes == 2
\* host names of SpecEval and SpecBuild are 1..MaxName
MaxName == 2
\* no stream is polled for more than MaxPolls items
MaxPolls == 7

\* ------------------------------------------------------ program constants
MAX_PER_TARGET == 5

\* ------------------------------------------------------------ f64, Option
NaN == 0 - 100
None == <<>>
Some(x) == <<x>>
IsSome(o) == Len(o) = 1
Unwrap(o) == o[1]

is_nan(x) == x = NaN
FGt(a, b) == IF is_nan(a) \/ is_nan(b) THEN FALSE ELSE a > b
FGe(a, b) == IF is_nan(a) \/ is_nan(b) THEN FALSE ELSE a >= b
FLt(a, b) == IF is_nan(a) \/ is_nan(b) THEN FALSE ELSE a < b
FLe(a, b) == IF is_nan(a) \/ is_nan(b) THEN FALSE ELSE a <= b

Lat == 0 .. MaxLat
Thr == 0 .. MaxThr
\* one raw outcome of a probe stream: Option<f64>
Outcome == {None} \cup {Some(x) : x \in Lat}

VARIABLES
    pc,           \* where the run (or the test) stands
    warn, crit,   \* thresholds of run()
    host, addr,   \* Targets.host, Targets.addr
    cutoff,       \* the cutoff argument of ping / ping_all / measure
    streams,      \* the probe streams handed to measure, one per target
    pos,          \* per stream: how many items it has yielded so far
    remaining,    \* per target: Take.remaining
    done_taking,  \* per target: TakeWhile.done_taking
    best,         \* the shared Rc<RefCell<Times>> buffer
    elems,        \* JoinAll.elems: "Pending" | "Done" per target
    strong,       \* strong count of the Rc holding best
    times,        \* what measure returned: Ok(times) as <<times>>, else <<>>
    err,          \* the error run() ended with: "none" | "socket" | "stream"
    min,          \* what min_rtt returned in evaluate
    output,       \* head of the output line of evaluate
    status,       \* the Status of evaluate
    exit_code,    \* process exit code, -1 while running
    hist,         \* history, per stream: what the items it yielded amount to
    args,         \* the TARGET arguments Targets::build has still to resolve
    filt,         \* the address family filter of run: "any" | "ipv4" | "ipv6"
    twarn,        \* Targets.warn: one entry per host that did not resolve
    built,        \* what Targets::build returned: "none" | "Ok" | "Err"
    borrow        \* borrow state of the RefCell in best: 0 unused, 1 writing

vars == <<pc, warn, crit, host, addr, cutoff, streams, pos, remaining,
          done_taking, best, elems, strong, times, err, min, output, status,
          exit_code, hist, args, filt, twarn, built, borrow>>

\* --------------------------------------------------------- probe streams
\* A Pinger stream: every poll that is ready may yield any outcome, the end
\* of the stream or a stream error (Error = tokio_ping::Error).
Live == [kind |-> "live", items |-> <<>>]
\* stream::iter_ok over a given vector of outcomes
IterOk(items) == [kind |-> "iter", items |-> items]

\* What a ready poll of stream s can return after it has yielded p items:
\* <<"item", o>> is Ready(Some(o)), <<"end", None>> is Ready(None),
\* <<"err", None>> is Err(e).  A poll that is NotReady changes nothing.
StreamPoll(s, p) ==
    IF s.kind = "iter"
    THEN IF p < Len(s.items) THEN {<<"item", s.items[p + 1]>>}
                             ELSE {<<"end", None>>}
    ELSE {<<"item", o>> : o \in Outcome} \cup {<<"end", None>>, <<"err", None>>}

\* ------------------------------------------------------------- engine.rs
\* Take::new(stream, MAX_PER_TARGET)
TakeLimit == MAX_PER_TARGET

\* variant of UpdateBest without the arm that lowers a value already set
UpdateBestKeepsFirst(b, i, elt) ==
    IF b[i] = None THEN [b EXCEPT ![i] = Some(elt)] ELSE b

\* variant of UpdateBest: the comparison of the lowering arm is reversed
UpdateBestGreatest(b, i, elt) ==
    IF IsSome(b[i]) /\ FLt(Unwrap(b[i]), elt) THEN [b EXCEPT ![i] = Some(elt)]
    ELSE IF b[i] = None THEN [b EXCEPT ![i] = Some(elt)]
    ELSE b

\* variant of UpdateBest: the slot always takes the latest reply
UpdateBestLatest(b, i, elt) == [b EXCEPT ![i] = Some(elt)]

\* the match of the take_while closure: the buffer after it has seen elt
UpdateBest(b, i, elt) ==
    IF IsSome(b[i]) /\ FGt(Unwrap(b[i]), elt) THEN [b EXCEPT ![i] = Some(elt)]
    ELSE IF b[i] = None THEN [b EXCEPT ![i] = Some(elt)]
    ELSE b

\* variant of KeepTaking with the comparison reversed
KeepTakingBelow(elt, c) == FLe(elt, c)

\* variant of KeepTaking with > in place of >=
KeepTakingStrict(elt, c) == FGt(elt, c)

\* the value of the take_while closure: keep taking while elt >= cutoff
KeepTaking(elt, c) == FGe(elt, c)

\* variant of Slot: every closure writes the first slot
SlotZero(i) == 1

\* variant of Slot: the slots are filled from the back
SlotReversed(i) == Len(best) + 1 - i

\* the slot of the buffer the closure of target i writes
Slot(i) == i

\* variant of AfterTake: filter_map ahead of take, None items are not counted
AfterTakeReplyOnly(r, o) == IF IsSome(o) THEN r - 1 ELSE r

\* variant of AfterTake: no take(MAX_PER_TARGET) in the chain
AfterTakeNever(r, o) == r

\* Take::poll on Ready(Some(item)): one less to take, whatever the item is
AfterTake(r, o) == r - 1

\* variant of AllDone: ready as soon as one element is Done
AnyDone(e) == \E i \in 1 .. Len(e) : e[i] = "Done"

\* JoinAll::poll is ready when every element is Done
AllDone(e) == \A i \in 1 .. Len(e) : e[i] = "Done"

\* variant of FutureDone: a completed future stays alive until join_all ends
FutureKept(s) == s

\* JoinAll::poll replaces a completed future by its value: the future is
\* dropped, and with it the closure's clone of best (one strong count less)
FutureDone(s) == s - 1

\* the RefMut taken by best.borrow_mut() is dropped at the end of the closure
RefMutDrop(b) == b - 1

\* ----------------------------------------------------------------- history
\* the least element of a non-empty set of numbers
Least(S) == CHOOSE x \in S : \A y \in S : x <= y

\* the history of a stream that has yielded nothing yet
NoHist == [n |-> 0, lo |-> None, hit |-> FALSE, eos |-> FALSE, late |-> FALSE]

\* The history h of a stream after it yields the raw item o: n counts the
\* items, lo is the least reply among them, hit says that some reply was
\* below c, eos that the stream has ended, and late that an item was yielded
\* although the stream had already ended, had had a reply below c or had
\* yielded MAX_PER_TARGET items.
Yielded(h, o, c) ==
    [h EXCEPT
       !.n = @ + 1,
       !.lo = IF IsSome(o)
              THEN Some(Least({Unwrap(o)} \cup {Unwrap(x) : x \in {h.lo} \ {None}}))
              ELSE @,
       !.hit = @ \/ (IsSome(o) /\ Unwrap(o) < c),
       !.late = @ \/ h.hit \/ h.eos \/ h.n >= MAX_PER_TARGET]

NTargets == Len(streams)
\* Pinger::new(&hdl) succeeded for the next address: one more stream.
PingerNew ==
    /\ pc = "ping_all"
    /\ Len(streams) < Len(addr)
    /\ streams' = Append(streams, Live)
    /\ UNCHANGED <<pc, warn, crit, host, addr, cutoff, pos, remaining,
                   done_taking, best, elems, strong, times, err, min, output,
                   status, exit_code, hist,
                   args, filt, twarn, built, borrow>>

\* variant of PingerNewFails: the socket is opened lazily, while the reactor
\* already runs the samplers
PingerNewFailsLate ==
    /\ pc = "reactor"
    /\ Len(elems) > 0
    /\ streams' = <<>>
    /\ elems' = <<>>
    /\ strong' = 1
    /\ err' = "socket"
    /\ pc' = "failed"
    /\ UNCHANGED <<warn, crit, host, addr, cutoff, pos, remaining, done_taking,
                   best, times, min, output, status, exit_code, hist,
                   args, filt, twarn, built, borrow>>

\* Pinger::new(&hdl) failed for the next address: collect::<io::Result<_>>
\* stops, the streams built so far are dropped and ping_all returns the
\* chained error ("cannot create ICMP socket"); Targets::ping passes it on.
PingerNewFails ==
    /\ pc = "ping_all"
    /\ Len(streams) < Len(addr)
    /\ streams' = <<>>
    /\ err' = "socket"
    /\ pc' = "failed"
    /\ UNCHANGED <<warn, crit, host, addr, cutoff, pos, remaining, done_taking,
                   best, elems, strong, times, min, output, status, exit_code, hist,
                   args, filt, twarn, built, borrow>>

\* every stream is built: ping_all calls measure(&mut reactor, streams, cutoff)
CallMeasure ==
    /\ pc = "ping_all"
    /\ Len(streams) = Len(addr)
    /\ pc' = "measure"
    /\ UNCHANGED <<warn, crit, host, addr, cutoff, streams, pos, remaining,
                   done_taking, best, elems, strong, times, err, min, output,
                   status, exit_code, hist,
                   args, filt, twarn, built, borrow>>

\* measure up to reactor.run: best = vec![None; targets.len()], and join_all
\* collects one for_each future per target, each holding a clone of the Rc.
MeasureStart ==
    /\ pc = "measure"
    /\ best' = [i \in 1 .. NTargets |-> None]
    /\ pos' = [i \in 1 .. NTargets |-> 0]
    /\ remaining' = [i \in 1 .. NTargets |-> TakeLimit]
    /\ done_taking' = [i \in 1 .. NTargets |-> FALSE]
    /\ elems' = [i \in 1 .. NTargets |-> "Pending"]
    /\ strong' = 1 + NTargets
    /\ hist' = [i \in 1 .. NTargets |-> NoHist]
    /\ pc' = "reactor"
    /\ UNCHANGED <<warn, crit, host, addr, cutoff, streams, times, err, min,
                   output, status, exit_code,
                   args, filt, twarn, built, borrow>>

\* The for_each future of target i is polled and its stream yields the raw
\* item o.  Take counts it; filter_map drops None; take_while runs the
\* closure on a reply.  The future completes in the same poll when the
\* closure said stop (done_taking) or when Take has nothing left (the next
\* Take::poll returns Ready(None) without polling the stream).
PollItem(i, o) ==
    /\ pc = "reactor"
    /\ i \in 1 .. Len(elems)
    /\ elems[i] = "Pending"
    /\ ~done_taking[i]
    /\ remaining[i] > 0
    /\ pos[i] < MaxPolls
    /\ <<"item", o>> \in StreamPoll(streams[i], pos[i])
    /\ IF IsSome(o) /\ borrow # 0
       THEN \* best.borrow_mut() on a RefCell that is already borrowed
            /\ pc' = "panicked"
            /\ UNCHANGED <<pos, remaining, hist, best, done_taking, elems,
                           strong, borrow>>
       ELSE /\ pc' = pc
            /\ pos' = [pos EXCEPT ![i] = @ + 1]
            /\ remaining' = [remaining EXCEPT ![i] = AfterTake(@, o)]
            /\ hist' = [hist EXCEPT ![i] = Yielded(@, o, cutoff)]
            /\ best' = IF IsSome(o) THEN UpdateBest(best, Slot(i), Unwrap(o))
                       ELSE best
            /\ borrow' = IF IsSome(o) THEN RefMutDrop(borrow + 1) ELSE borrow
            /\ done_taking' = [done_taking EXCEPT
                                  ![i] = IsSome(o) /\
                                         ~KeepTaking(Unwrap(o), cutoff)]
            /\ LET finished == done_taking'[i] \/ remaining'[i] = 0
               IN  /\ elems' = [elems EXCEPT
                                   ![i] = IF finished THEN "Done" ELSE @]
                   /\ strong' = IF finished THEN FutureDone(strong)
                                ELSE strong
    /\ UNCHANGED <<warn, crit, host, addr, cutoff, streams, times, err,
                   min, output, status, exit_code,
                   args, filt, twarn, built>>

\* The stream of target i is exhausted: Take sets remaining to 0 and the
\* for_each future completes.
PollEnd(i) ==
    /\ pc = "reactor"
    /\ i \in 1 .. Len(elems)
    /\ elems[i] = "Pending"
    /\ ~done_taking[i]
    /\ remaining[i] > 0
    /\ pos[i] < MaxPolls
    /\ <<"end", None>> \in StreamPoll(streams[i], pos[i])
    /\ remaining' = [remaining EXCEPT ![i] = 0]
    /\ elems' = [elems EXCEPT ![i] = "Done"]
    /\ strong' = FutureDone(strong)
    /\ hist' = [hist EXCEPT ![i].eos = TRUE,
                            ![i].late = @ \/ hist[i].hit \/ hist[i].n >= MAX_PER_TARGET]
    /\ UNCHANGED <<pc, warn, crit, host, addr, cutoff, streams, pos,
                   done_taking, best, times, err, min, output, status,
                   exit_code,
                   args, filt, twarn, built, borrow>>

\* variant of PollErr: the error ends the stream of target i and the other
\* samplers go on
PollErrEndsStream(i) ==
    /\ pc = "reactor"
    /\ i \in 1 .. Len(elems)
    /\ elems[i] = "Pending"
    /\ ~done_taking[i]
    /\ remaining[i] > 0
    /\ pos[i] < MaxPolls
    /\ <<"err", None>> \in StreamPoll(streams[i], pos[i])
    /\ remaining' = [remaining EXCEPT ![i] = 0]
    /\ elems' = [elems EXCEPT ![i] = "Done"]
    /\ strong' = FutureDone(strong)
    /\ err' = "stream"
    /\ UNCHANGED <<pc, warn, crit, host, addr, cutoff, streams, pos,
                   done_taking, best, times, min, output, status, exit_code,
                   hist, args, filt, twarn, built, borrow>>

\* The stream of target i fails: join_all drops every future (elems =
\* Vec::new()) and returns the error, reactor.run(..)? returns it from
\* measure, and ping_all and Targets::ping pass it on.
PollErr(i) ==
    /\ pc = "reactor"
    /\ i \in 1 .. Len(elems)
    /\ elems[i] = "Pending"
    /\ ~done_taking[i]
    /\ remaining[i] > 0
    /\ pos[i] < MaxPolls
    /\ <<"err", None>> \in StreamPoll(streams[i], pos[i])
    /\ elems' = <<>>
    /\ strong' = 1
    /\ err' = "stream"
    /\ pc' = "failed"
    /\ UNCHANGED <<warn, crit, host, addr, cutoff, streams, pos, remaining,
                   done_taking, best, times, min, output, status, exit_code, hist,
                   args, filt, twarn, built, borrow>>

\* join_all is ready once every future is Done; measure then unwraps the Rc
\* (a panic unless it holds the only reference) and returns Ok(times).
JoinAllReady ==
    /\ pc = "reactor"
    /\ AllDone(elems)
    /\ IF strong = 1
       THEN /\ times' = Some(best)
            /\ pc' = "measured"
       ELSE /\ times' = times
            /\ pc' = "panicked"
    /\ UNCHANGED <<warn, crit, host, addr, cutoff, streams, pos, remaining,
                   done_taking, best, elems, strong, err, min, output, status,
                   exit_code, hist,
                   args, filt, twarn, built, borrow>>
\* --------------------------------------------------------------- status.rs
\* variant of StatusCode: the enum declared with Unknown first
StatusCodeUnknownFirst(st) ==
    CASE st = "Unknown" -> 0
      [] st = "OK" -> 1
      [] st = "Warning" -> 2
      [] st = "Critical" -> 3

\* Status as i32: the declaration order of the enum
StatusCode(st) ==
    CASE st = "OK" -> 0
      [] st = "Warning" -> 1
      [] st = "Critical" -> 2
      [] st = "Unknown" -> 3

\* variant of CheckPanics: no value is rejected
CheckPanicsNever(val) == FALSE

\* Status::check panics on a negative value
CheckPanics(val) == FLt(val, 0)

\* variant of Check with >= in place of > at both thresholds
CheckBoundary(val, w, c) ==
    IF FGe(val, c) THEN "Critical"
    ELSE IF FGe(val, w) THEN "Warning"
    ELSE IF FLt(val, w) THEN "OK"
    ELSE "Unknown"

\* Status::check(val, warn, crit), for a value it does not panic on
Check(val, w, c) ==
    IF FGt(val, c) THEN "Critical"
    ELSE IF FGt(val, w) THEN "Warning"
    ELSE IF FLe(val, w) THEN "OK"
    ELSE "Unknown"

\* ----------------------------------------------------------------- main.rs
\* partial_cmp of two (f64, &str, IpAddr) tuples without NaN: lexicographic
TupleGreater(a, b) ==
    \/ a[1] > b[1]
    \/ a[1] = b[1] /\ a[2] > b[2]
    \/ a[1] = b[1] /\ a[2] = b[2] /\ a[3] > b[3]

\* variant of Candidates without the filter on is_nan
RECURSIVE CandidatesWithNaN(_, _, _, _)
CandidatesWithNaN(ts, hs, as, i) ==
    IF i > Len(ts) THEN <<>>
    ELSE IF IsSome(ts[i])
         THEN <<<<Unwrap(ts[i]), hs[i], as[i]>>>> \o CandidatesWithNaN(ts, hs, as, i + 1)
         ELSE CandidatesWithNaN(ts, hs, as, i + 1)

\* the iterator of min_rtt up to min_by: the entries that are Some and not
\* NaN, each with the host and the address of its own index, in order
RECURSIVE Candidates(_, _, _, _)
Candidates(ts, hs, as, i) ==
    IF i > Len(ts) THEN <<>>
    ELSE IF IsSome(ts[i]) /\ ~is_nan(Unwrap(ts[i]))
         THEN <<<<Unwrap(ts[i]), hs[i], as[i]>>>> \o Candidates(ts, hs, as, i + 1)
         ELSE Candidates(ts, hs, as, i + 1)

\* Iterator::min_by: a fold that keeps the earlier element unless it compares
\* Greater than the later one
RECURSIVE MinBy(_, _, _)
MinBy(acc, c, k) ==
    IF k > Len(c) THEN acc
    ELSE MinBy(IF TupleGreater(acc, c[k]) THEN c[k] ELSE acc, c, k + 1)

\* PingTimes::min_rtt
min_rtt(ts, hs, as) ==
    LET c == Candidates(ts, hs, as, 1)
    IN  IF c = <<>> THEN None ELSE Some(MinBy(c[1], c, 2))

\* variant of EvaluateResult without the is_empty branch
EvaluateResultNoEmptyCheck(ts, hs, as, w, c) ==
    LET m == min_rtt(ts, hs, as)
    IN  IF IsSome(m)
        THEN IF CheckPanics(Unwrap(m)[1])
             THEN [min |-> m, output |-> "", status |-> None, panic |-> TRUE]
             ELSE [min |-> m, output |-> "best rtt",
                   status |-> Some(Check(Unwrap(m)[1], w, c)), panic |-> FALSE]
        ELSE [min |-> m, output |-> "no data",
              status |-> Some("Critical"), panic |-> FALSE]

\* PingTimes::evaluate as a function: what min_rtt returned (None when it is
\* not called), the head of the output line, the status, and whether
\* Status::check panicked (it does on a negative best time).
EvaluateResult(ts, hs, as, w, c) ==
    LET m == min_rtt(ts, hs, as)
    IN  IF ts = <<>>
        THEN [min |-> None, output |-> "no targets found",
              status |-> Some("Unknown"), panic |-> FALSE]
        ELSE IF IsSome(m)
        THEN IF CheckPanics(Unwrap(m)[1])
             THEN [min |-> m, output |-> "", status |-> None, panic |-> TRUE]
             ELSE [min |-> m, output |-> "best rtt",
                   status |-> Some(Check(Unwrap(m)[1], w, c)), panic |-> FALSE]
        ELSE [min |-> m, output |-> "no data",
              status |-> Some("Critical"), panic |-> FALSE]

\* run (or a test) calls evaluate on the PingTimes that ping returned
Evaluate ==
    /\ pc = "measured"
    /\ LET r == EvaluateResult(Unwrap(times), host, addr, warn, crit)
       IN  /\ min' = r.min
           /\ output' = r.output
           /\ status' = r.status
           /\ pc' = IF r.panic THEN "panicked" ELSE "evaluated"
    /\ UNCHANGED <<warn, crit, host, addr, cutoff, streams, pos, remaining,
                   done_taking, best, elems, strong, times, err, exit_code,
                   hist,
                   args, filt, twarn, built, borrow>>

\* a direct call of PingTimes::min_rtt (tests.rs min_rtt_*)
MinRtt ==
    /\ pc = "measured"
    /\ min' = min_rtt(Unwrap(times), host, addr)
    /\ pc' = "min_rtt"
    /\ UNCHANGED <<warn, crit, host, addr, cutoff, streams, pos, remaining,
                   done_taking, best, elems, strong, times, err, output,
                   status, exit_code, hist,
                   args, filt, twarn, built, borrow>>

\* ------------------------------------------------------- main.rs: Targets
\* A TARGET argument: name is what the user typed; kind says how the
\* resolver treats it: a "literal" address resolves to itself, a "bad" name
\* never resolves, a "name" resolves to whatever DNS answers this time.
Arg(n, k) == [name |-> n, kind |-> k]

\* addresses are numbers; the odd ones are IPv4, the even ones IPv6
is_ipv4(a) == a % 2 = 1
\* the addresses a name can resolve to: one per family
Addr4(n) == 2 * n - 1
Addr6(n) == 2 * n

\* (host, 0).to_socket_addrs(): <<"ok", addrs>> or <<"err", <<>>>>
Resolve(a) ==
    CASE a.kind = "literal" -> {<<"ok", <<a.name>>>>}
      [] a.kind = "bad" -> {<<"err", <<>>>>}
      [] a.kind = "name" ->
            {<<"err", <<>>>>} \cup
            {<<"ok", l>> : l \in {<<>>, <<Addr4(a.name)>>, <<Addr6(a.name)>>,
                                  <<Addr4(a.name), Addr6(a.name)>>,
                                  <<Addr6(a.name), Addr4(a.name)>>}}

\* af_filter of run: is_ipv4 with -4, is_ipv6 with -6, is_any otherwise
AfFilter(f, a) ==
    CASE f = "ipv4" -> is_ipv4(a)
      [] f = "ipv6" -> ~is_ipv4(a)
      [] f = "any" -> TRUE

\* what Targets::build returns once every host went through add_host
BuildResultStrict(w) == IF w = <<>> THEN "Ok" ELSE "Err"
BuildResult(w) == "Ok"

\* run: value_t!(args, "warn_ms", f64)? and value_t!(args, "crit_ms", f64)?
\* both parse; warn and crit hold the values
ParseArgs ==
    /\ pc = "args"
    /\ pc' = "build"
    /\ UNCHANGED <<warn, crit, host, addr, cutoff, streams, pos, remaining,
                   done_taking, best, elems, strong, times, err, min, output,
                   status, exit_code, hist,
                   args, filt, twarn, built, borrow>>

\* one of the two value_t!(..)? fails: run returns the clap error
ParseArgsFails ==
    /\ pc = "args"
    /\ err' = "args"
    /\ pc' = "failed"
    /\ UNCHANGED <<warn, crit, host, addr, cutoff, streams, pos, remaining,
                   done_taking, best, elems, strong, times, min, output,
                   status, exit_code, hist,
                   args, filt, twarn, built, borrow>>

\* add_host, Ok(addrs): every address that passes the filter is pushed,
\* together with the host name
AddHostOk ==
    /\ pc = "build"
    /\ args # <<>>
    /\ \E l \in {r[2] : r \in {q \in Resolve(Head(args)) : q[1] = "ok"}} :
          LET kept == SelectSeq(l, LAMBDA a : AfFilter(filt, a))
          IN  /\ addr' = addr \o kept
              /\ host' = host \o [i \in 1 .. Len(kept) |-> Head(args).name]
    /\ args' = Tail(args)
    /\ UNCHANGED <<pc, warn, crit, cutoff, streams, pos, remaining,
                   done_taking, best, elems, strong, times, err, min, output,
                   status, exit_code, hist, filt, twarn, built, borrow>>

\* add_host, Err(e): self.warn.push(format!("{}: {}", host, e))
AddHostErr ==
    /\ pc = "build"
    /\ args # <<>>
    /\ <<"err", <<>>>> \in Resolve(Head(args))
    /\ twarn' = Append(twarn, Head(args).name)
    /\ args' = Tail(args)
    /\ UNCHANGED <<pc, warn, crit, host, addr, cutoff, streams, pos,
                   remaining, done_taking, best, elems, strong, times, err,
                   min, output, status, exit_code, hist, filt, built, borrow>>

\* Targets::build returns after the loop over the hosts; run applies ? to it
BuildReturn ==
    /\ pc = "build"
    /\ args = <<>>
    /\ built' = BuildResult(twarn)
    /\ IF built' = "Ok"
       THEN pc' = "run" /\ err' = err
       ELSE pc' = "failed" /\ err' = "build"
    /\ UNCHANGED <<warn, crit, host, addr, cutoff, streams, pos, remaining,
                   done_taking, best, elems, strong, times, min, output,
                   status, exit_code, hist, args, filt, twarn, borrow>>

\* run: Targets::build(..)?.ping(warn) - the warning threshold is the cutoff
Ping ==
    /\ pc = "run"
    /\ cutoff' = warn
    /\ pc' = "ping_all"
    /\ UNCHANGED <<warn, crit, host, addr, streams, pos, remaining,
                   done_taking, best, elems, strong, times, err, min, output,
                   status, exit_code, hist,
                   args, filt, twarn, built, borrow>>

\* run prints the line and returns Ok(status as i32); main exits with it
Exit ==
    /\ pc = "evaluated"
    /\ exit_code' = StatusCode(Unwrap(status))
    /\ pc' = "exited"
    /\ UNCHANGED <<warn, crit, host, addr, cutoff, streams, pos, remaining,
                   done_taking, best, elems, strong, times, err, min, output,
                   status, hist,
                   args, filt, twarn, built, borrow>>

\* run returned Err: main prints the chain and exits with 3
ExitErr ==
    /\ pc = "failed"
    /\ exit_code' = 3
    /\ pc' = "exited"
    /\ UNCHANGED <<warn, crit, host, addr, cutoff, streams, pos, remaining,
                   done_taking, best, elems, strong, times, err, min, output,
                   status, hist,
                   args, filt, twarn, built, borrow>>

\* ---------------------------------------------------------- specifications
Idle ==
    /\ cutoff = 0
    /\ streams = <<>>
    /\ pos = <<>>
    /\ remaining = <<>>
    /\ done_taking = <<>>
    /\ best = <<>>
    /\ elems = <<>>
    /\ strong = 1
    /\ times = None
    /\ err = "none"
    /\ min = None
    /\ output = ""
    /\ status = None
    /\ exit_code = -1
    /\ hist = <<>>
    /\ twarn = <<>>
    /\ built = "none"
    /\ borrow = 0

\* run() from its first line: one to MaxTargets TARGET arguments, each
\* either a literal address (host = addr) or a name that does not resolve,
\* no family filter, and the two thresholds
Init ==
    /\ pc = "args"
    /\ warn \in Thr
    /\ crit \in Thr
    /\ filt = "any"
    /\ \E n \in 1 .. MaxTargets :
          \E k \in [1 .. n -> {"literal", "bad"}] :
             args = [i \in 1 .. n |-> Arg(i, k[i])]
    /\ host = <<>>
    /\ addr = <<>>
    /\ Idle

Next ==
    \/ ParseArgs
    \/ ParseArgsFails
    \/ AddHostOk
    \/ AddHostErr
    \/ BuildReturn
    \/ Ping
    \/ PingerNew
    \/ PingerNewFails
    \/ CallMeasure
    \/ MeasureStart
    \/ \E i \in 1 .. MaxTargets : \E o \in Outcome : PollItem(i, o)
    \/ \E i \in 1 .. MaxTargets : PollEnd(i)
    \/ \E i \in 1 .. MaxTargets : PollErr(i)
    \/ JoinAllReady
    \/ Evaluate
    \/ Exit
    \/ ExitErr

Spec == Init /\ [][Next]_vars
\* all sequences over S of length at most n
SeqsUpTo(S, n) == UNION {[1 .. k -> S] : k \in 0 .. n}

\* measure called on one given finite stream (engine.rs tests, fake_stream):
\* every sequence of outcomes up to MaxIterLen, every cutoff around them
InitIter ==
    /\ pc = "measure"
    /\ pos = <<>> /\ remaining = <<>> /\ done_taking = <<>> /\ best = <<>>
    /\ elems = <<>> /\ strong = 1 /\ times = None /\ err = "none"
    /\ min = None /\ output = "" /\ status = None /\ exit_code = -1
    /\ hist = <<>>
    /\ args = <<>> /\ filt = "any" /\ twarn = <<>> /\ built = "Ok"
    /\ borrow = 0
    /\ warn = 0 /\ crit = 0 /\ host = <<>> /\ addr = <<>>
    /\ cutoff \in 0 .. MaxLat + 1
    /\ \E items \in SeqsUpTo(Outcome, MaxIterLen) : streams = <<IterOk(items)>>

NextIter ==
    \/ MeasureStart
    \/ \E o \in Outcome : PollItem(1, o)
    \/ PollEnd(1)
    \/ JoinAllReady

SpecIter == InitIter /\ [][NextIter]_vars

\* the f64 values a PingTimes entry may hold in SpecEval
EvalLat == (-1 .. MaxLat) \cup {NaN}

\* evaluate / min_rtt called on a PingTimes value built by hand (tests.rs,
\* pt()): any times vector up to MaxTimes entries, any host per entry,
\* distinct addresses in ascending or descending order, any thresholds
InitEval ==
    /\ pc = "measured"
    /\ warn \in Thr
    /\ crit \in Thr
    /\ \E n \in 0 .. MaxTimes :
          /\ \E ts \in [1 .. n -> {None} \cup {Some(x) : x \in EvalLat}] :
                times = Some(ts)
          /\ host \in [1 .. n -> 1 .. MaxName]
          /\ \E rev \in BOOLEAN :
                addr = [i \in 1 .. n |-> IF rev THEN n + 1 - i ELSE i]
    /\ cutoff = 0 /\ streams = <<>>
    /\ pos = <<>> /\ remaining = <<>> /\ done_taking = <<>> /\ best = <<>>
    /\ elems = <<>> /\ strong = 1 /\ err = "none"
    /\ min = None /\ output = "" /\ status = None /\ exit_code = -1
    /\ hist = <<>>
    /\ args = <<>> /\ filt = "any" /\ twarn = <<>> /\ built = "Ok"
    /\ borrow = 0

NextEval ==
    \/ Evaluate
    \/ MinRtt

SpecEval == InitEval /\ [][NextEval]_vars

\* Targets::build on its own (tests.rs build_targets_*): up to MaxTargets
\* hosts, each a literal or a name, under any of the three family filters
InitBuild ==
    /\ pc = "build"
    /\ warn = 0
    /\ crit = 0
    /\ filt \in {"any", "ipv4", "ipv6"}
    /\ args \in SeqsUpTo({Arg(n, k) : n \in 1 .. MaxName,
                                      k \in {"literal", "name"}}, MaxTargets)
    /\ host = <<>>
    /\ addr = <<>>
    /\ Idle

NextBuild ==
    \/ AddHostOk
    \/ AddHostErr
    \/ BuildReturn

SpecBuild == InitBuild /\ [][NextBuild]_vars

\* measure called on up to MaxTargets probe streams that never fail, with
\* any cutoff
InitLive ==
    /\ pc = "measure"
    /\ warn = 0 /\ crit = 0
    /\ args = <<>> /\ filt = "any" /\ twarn = <<>> /\ built = "Ok"
    /\ \E n \in 0 .. MaxTargets :
          /\ addr = [i \in 1 .. n |-> i]
          /\ host = [i \in 1 .. n |-> i]
          /\ streams = [i \in 1 .. n |-> Live]
    /\ cutoff \in Thr
    /\ pos = <<>> /\ remaining = <<>> /\ done_taking = <<>> /\ best = <<>>
    /\ elems = <<>> /\ strong = 1 /\ times = None /\ err = "none"
    /\ min = None /\ output = "" /\ status = None /\ exit_code = -1
    /\ hist = <<>> /\ borrow = 0

\* the probe stream of target i yields its next outcome or its end
Outcomes(i) == (\E o \in Outcome : PollItem(i, o)) \/ PollEnd(i)

NextLive ==
    \/ MeasureStart
    \/ \E i \in 1 .. MaxTargets : Outcomes(i)
    \/ JoinAllReady

\* reactor.run polls until join_all is ready: a probe that was sent is
\* answered or times out, so a pending stream eventually yields, and the
\* task is polled again after the last future became Done
SpecLive ==
    /\ InitLive
    /\ [][NextLive]_vars
    /\ WF_vars(MeasureStart)
    /\ \A i \in 1 .. MaxTargets : WF_vars(Outcomes(i))
    /\ WF_vars(JoinAllReady)
\* ------------------------------------------------------------------ claims
\* the sampler of target i has concluded: its closure said stop, or Take has
\* nothing left (attempt cap reached, or the stream ended)
Concluded(i) == done_taking[i] \/ remaining[i] = 0

\* measure has been entered and left again (returned, or panicked)
MeasureLeft ==
    /\ pc \notin {"args", "build", "run", "ping_all", "measure", "reactor"}
    /\ err \notin {"socket", "args", "build"}

\* the items of the one stream of SpecIter
Items == streams[1].items

\* the replies among the first k items of s
Replies(s, k) == {Unwrap(s[j]) : j \in {j \in 1 .. k : IsSome(s[j])}}

\* the positions, among the first MAX_PER_TARGET, of replies of s below c
Below(s, c) ==
    {j \in 1 .. Len(s) : j <= MAX_PER_TARGET /\ IsSome(s[j]) /\ Unwrap(s[j]) < c}

\* the least of a set of replies as a BestLatency: None for the empty set
BestOf(S) == IF S = {} THEN None ELSE Some(Least(S))

\* C1: at most MAX_PER_TARGET raw outcomes are ever consumed from a target's
\* stream, whatever the interleaving; a "no reply" uses up one attempt of
\* the budget exactly like a reply (until the stream ends, consumed plus
\* remaining attempts is MAX_PER_TARGET), so no outcome at position 6 or
\* later is ever read.
C1_AttemptCap ==
    \A i \in 1 .. Len(pos) :
        /\ pos[i] <= MAX_PER_TARGET
        /\ ~hist[i].eos => pos[i] + remaining[i] = MAX_PER_TARGET

\* five "no reply" outcomes used up the whole budget of a target
C1_Witness ==
    /\ pc = "measured"
    /\ Len(pos) = 2
    /\ pos[2] = MAX_PER_TARGET /\ best[2] = None /\ ~hist[2].eos

\* C2: when the first reply below cutoff of a stream is at position
\* k <= MAX_PER_TARGET, nothing after position k is consumed, measure returns
\* the least reply among positions 1..k, and if that reply is the first reply
\* of the stream, exactly one reply was consumed.
C2_CutoffStop ==
    (pc \in {"reactor", "measured"} /\ Below(Items, cutoff) # {}) =>
        LET k == Least(Below(Items, cutoff))
        IN  /\ pos[1] <= k
            /\ pc = "measured" =>
                  /\ pos[1] = k
                  /\ Unwrap(times) = <<BestOf(Replies(Items, k))>>
                  /\ Replies(Items, k - 1) = {} =>
                        Cardinality({j \in 1 .. pos[1] : IsSome(Items[j])}) = 1

\* the third item is the first reply below cutoff, after a no reply and a
\* reply equal to cutoff, and more items follow
C2_Witness ==
    /\ pc = "measured"
    /\ Len(Items) = 5
    /\ Items[1] = None /\ Items[2] = Some(cutoff) /\ Items[3] = Some(cutoff - 1)
    /\ pos[1] = 3
    /\ Unwrap(times) = <<Some(cutoff - 1)>>

\* C3: a stream without a reply below cutoff among its first MAX_PER_TARGET
\* items (a reply equal to cutoff is not below) is consumed for exactly
\* min(MAX_PER_TARGET, length) items, and measure returns the least reply
\* among those, or None if there is none.
C3_NoEarlyStop ==
    (pc = "measured" /\ Below(Items, cutoff) = {}) =>
        LET m == IF Len(Items) < MAX_PER_TARGET THEN Len(Items) ELSE MAX_PER_TARGET
        IN  /\ pos[1] = m
            /\ Unwrap(times) = <<BestOf(Replies(Items, m))>>

\* six items, a no reply, replies equal to cutoff, and a reply below cutoff
\* only at position 6: five are consumed
C3_Witness ==
    /\ pc = "measured"
    /\ Len(Items) = MAX_PER_TARGET + 1
    /\ cutoff = 1
    /\ Items[1] = None /\ Items[2] = Some(cutoff)
    /\ Items[MAX_PER_TARGET + 1] = Some(0)
    /\ pos[1] = MAX_PER_TARGET
    /\ Unwrap(times) = <<Some(cutoff)>>

C5_Independence ==
    /\ \A i \in 1 .. Len(pos) :
          /\ pos[i] = hist[i].n
          /\ best[i] = hist[i].lo
          /\ ~hist[i].late
          /\ Concluded(i) <=>
                (hist[i].hit \/ hist[i].eos \/ hist[i].n >= MAX_PER_TARGET)
          /\ (Len(elems) > 0 /\ elems[i] = "Pending") => ~Concluded(i)
    /\ IsSome(times) =>
          \A i \in 1 .. Len(pos) :
              /\ Concluded(i)
              /\ Unwrap(times)[i] = hist[i].lo

\* two targets ended differently: the first stopped on a reply below cutoff
\* after a reply that was not, the second one went on to the end of its
\* stream with a larger best value
C5_Witness ==
    /\ pc = "measured"
    /\ Len(pos) = 2
    /\ pos[1] = 2 /\ hist[1].hit /\ best[1] = Some(0)
    /\ hist[2].eos /\ pos[2] = 3 /\ best[2] = Some(1)

\* C6: the vector measure returns has one entry per input target, entry i
\* being the final best latency of the i-th target, and it is empty for an
\* empty target list, for which no stream exists and nothing is consumed.
C6_ResultShape ==
    IsSome(times) =>
        /\ Len(Unwrap(times)) = Len(addr)
        /\ \A i \in 1 .. Len(addr) : Unwrap(times)[i] = hist[i].lo
        /\ Len(addr) = 0 => Unwrap(times) = <<>> /\ streams = <<>> /\ pos = <<>>

\* the second target concluded on its first item, the first one needed all
\* its attempts; the entries are in input order
C6_Witness ==
    /\ pc = "exited"
    /\ IsSome(times)
    /\ Len(addr) = 2
    /\ hist[1].n = MAX_PER_TARGET /\ hist[2].n = 1
    /\ Unwrap(times) = <<Some(1), Some(0)>>

\* C7: when Pinger::new fails, no outcome has been consumed from any stream,
\* there is no ResultSet and no status, and the run ends with exit code 3.
C7_SetupFailure ==
    err = "socket" =>
        /\ pos = <<>> /\ hist = <<>> /\ best = <<>>
        /\ times = None /\ status = None /\ output = ""
        /\ pc \in {"failed", "exited"}
        /\ pc = "exited" => exit_code = 3

\* the run with two targets ended with the setup error
C7_Witness ==
    /\ err = "socket"
    /\ Len(addr) = 2
    /\ pc = "exited"
    /\ exit_code = 3

\* the latencies of a times vector that are defined and not NaN
Defined(ts) ==
    {Unwrap(ts[i]) : i \in {j \in 1 .. Len(ts) : IsSome(ts[j]) /\ Unwrap(ts[j]) # NaN}}

\* C8: for a ResultSet whose least defined latency is best >= 0 and
\* thresholds 0 <= warn <= crit, evaluate returns OK when best <= warn,
\* Warning when warn < best <= crit and Critical when best > crit.
C8_Thresholds ==
    LET ts == Unwrap(times)
    IN  (/\ pc \in {"evaluated", "panicked"}
         /\ Defined(ts) # {}
         /\ Least(Defined(ts)) >= 0
         /\ 0 <= warn /\ warn <= crit) =>
            /\ pc = "evaluated"
            /\ status = Some(IF Least(Defined(ts)) <= warn THEN "OK"
                             ELSE IF Least(Defined(ts)) <= crit THEN "Warning"
                             ELSE "Critical")

\* the best latency equals crit, above warn: Warning
C8_Witness ==
    /\ pc = "evaluated"
    /\ warn < crit
    /\ Defined(Unwrap(times)) # {}
    /\ Least(Defined(Unwrap(times))) = crit
    /\ status = Some("Warning")

\* C9: evaluate returns Unknown and "no targets found" for an empty
\* ResultSet, and Critical and "no data" for a non-empty one without a
\* defined, non-NaN latency.
C9_NoTargetsNoData ==
    LET ts == Unwrap(times)
    IN  (pc \in {"evaluated", "panicked"} /\ Defined(ts) = {}) =>
            /\ pc = "evaluated"
            /\ ts = <<>> => status = Some("Unknown") /\ output = "no targets found"
            /\ ts # <<>> => status = Some("Critical") /\ output = "no data"

\* a ResultSet of one None and one NaN: no data
C9_Witness ==
    /\ pc = "evaluated"
    /\ Len(Unwrap(times)) = 2
    /\ None \in {Unwrap(times)[1], Unwrap(times)[2]}
    /\ Some(NaN) \in {Unwrap(times)[1], Unwrap(times)[2]}
    /\ output = "no data"

\* C10: min_rtt returns nothing exactly when no entry is defined and not NaN;
\* otherwise the least such latency, with the host and the address of a
\* target that has this latency.
C10_MinRtt ==
    LET ts == Unwrap(times)
    IN  pc = "min_rtt" =>
            /\ min = None <=> Defined(ts) = {}
            /\ IsSome(min) =>
                  /\ Unwrap(min)[1] = Least(Defined(ts))
                  /\ \E i \in 1 .. Len(ts) :
                        /\ ts[i] = Some(Unwrap(min)[1])
                        /\ host[i] = Unwrap(min)[2]
                        /\ addr[i] = Unwrap(min)[3]

\* the first entry is NaN, the second one is selected
C10_Witness ==
    /\ pc = "min_rtt"
    /\ Len(Unwrap(times)) = 2
    /\ Unwrap(times)[1] = Some(NaN)
    /\ IsSome(min)
    /\ Unwrap(min) = <<1, host[2], addr[2]>>

\* the negative latencies in a PingTimes vector
Negative(ts) == {x \in Defined(ts) : x < 0}

\* C11: when the ResultSet handed to evaluate holds a negative latency,
\* evaluate panics in Status::check: no severity and no output line is
\* returned for it.
C11_NegativePanics ==
    (pc \in {"evaluated", "panicked"} /\ Negative(Unwrap(times)) # {}) =>
        /\ pc = "panicked"
        /\ status = None
        /\ output = ""

\* a negative latency next to a non-negative one: evaluate panicked
C11_Witness ==
    /\ pc = "panicked"
    /\ Unwrap(times) = <<Some(1), Some(-1)>>
    /\ warn = 0
    /\ crit = 1

C13_BuildErrOnUnresolved ==
    (built # "none" /\ twarn # <<>>) => built = "Err"

C15_Termination ==
    <>(/\ pc = "measured"
       /\ IsSome(times)
       /\ \A i \in 1 .. NTargets : Concluded(i))

\* measure returned although no stream ended and no reply was below the
\* cutoff: both samplers ran into the attempt cap
C15_Witness ==
    /\ pc = "measured"
    /\ NTargets = 2
    /\ \A i \in 1 .. 2 : ~hist[i].eos /\ ~hist[i].hit /\ pos[i] = MAX_PER_TARGET

\* C16: in every step, a slot of the result buffer that is set stays set and
\* does not grow; when it changes, it changes to a strictly smaller value,
\* in a step in which its own target yielded one more item, and that value
\* is the least reply this target has yielded.
C16_BestMonotone ==
    [][\A i \in 1 .. Len(best) :
          IsSome(best[i]) =>
             /\ Len(best') = Len(best)
             /\ IsSome(best'[i])
             /\ Unwrap(best'[i]) <= Unwrap(best[i])
             /\ best'[i] # best[i] =>
                   /\ Unwrap(best'[i]) < Unwrap(best[i])
                   /\ hist'[i].n = hist[i].n + 1
                   /\ hist'[i].lo = best'[i]
                   /\ \A j \in 1 .. Len(best) : j # i => best'[j] = best[j]]_vars

\* two samplers ran to the attempt cap with nothing below the cutoff: the
\* slot of the first ended at 0, the slot of the second stayed at 1
C16_Witness ==
    /\ pc = "measured"
    /\ Len(best) = 2
    /\ cutoff = 0
    /\ pos = <<MAX_PER_TARGET, MAX_PER_TARGET>>
    /\ best = <<Some(0), Some(1)>>

\* C17: at every moment of measure on a given sequence, the items consumed
\* are its first pos items, one more per step and in order, and the slot is
\* the least reply among them, or none when there is no reply among them; a
\* step that consumes "no reply" leaves the slot as it is.
C17_PrefixMinimum ==
    [][pc = "reactor" =>
          /\ pos[1] <= Len(Items)
          /\ hist[1].n = pos[1]
          /\ best[1] = BestOf(Replies(Items, pos[1]))
          /\ pos'[1] \in {pos[1], pos[1] + 1}
          /\ (pos'[1] = pos[1] + 1 /\ Items[pos'[1]] = None) =>
                best' = best]_vars

\* mid-run, after a reply of 1, a "no reply" and a reply of 0, with more
\* items to come
C17_Witness ==
    /\ pc = "reactor"
    /\ Len(Items) >= 4
    /\ SubSeq(Items, 1, 3) = <<Some(1), None, Some(0)>>
    /\ pos = <<3>>
    /\ best = <<Some(0)>>
    /\ elems = <<"Pending">>

\* C18: the cutoff of a run is its warning threshold, so in a run with
\* warn <= crit in which the closure of some target said stop, which it
\* does on a reply below the cutoff, the severity is OK; a run that ends in
\* Warning or Critical stopped no target early.
C18_EarlyStopOK ==
    /\ (pc \notin {"args", "build", "run"} /\ err # "args") => cutoff = warn
    /\ (pc \in {"evaluated", "exited"} /\ err = "none") =>
          /\ \A i \in 1 .. Len(done_taking) : done_taking[i] <=> hist[i].hit
          /\ (warn <= crit /\ \E i \in 1 .. Len(done_taking) : done_taking[i])
                => status = Some("OK")
          /\ status \in {Some("Warning"), Some("Critical")} =>
                \/ warn > crit
                \/ \A i \in 1 .. Len(done_taking) : ~done_taking[i]

\* the first target stopped early on a reply of 0 below the cutoff 1, the
\* second one only had replies of 1: the run is OK
C18_Witness ==
    /\ pc = "exited"
    /\ warn = 1
    /\ crit = 1
    /\ done_taking = <<TRUE, FALSE>>
    /\ best = <<Some(0), Some(1)>>
    /\ status = Some("OK")

\* C19: once a probe stream has failed, the run is over with that error: no
\* sampler is left, measure returns no ResultSet, nothing is classified
\* although slots of the buffer may hold latencies, and the exit code is 3.
C19_StreamErrorAborts ==
    err = "stream" =>
        /\ pc \in {"failed", "exited"}
        /\ elems = <<>>
        /\ times = None
        /\ min = None
        /\ status = None
        /\ output = ""
        /\ pc = "exited" => exit_code = 3

\* the stream of the second target failed after the first target had
\* recorded a latency of 0 and stopped: the run exited with 3
C19_Witness ==
    /\ pc = "exited"
    /\ err = "stream"
    /\ best = <<Some(0), None>>
    /\ done_taking = <<TRUE, FALSE>>
    /\ hist[2].n = 1

\* the samplers whose future is still alive
Pending == {i \in 1 .. Len(elems) : elems[i] = "Pending"}

\* C20: while the samplers run, the buffer is referenced once by measure and
\* once by each sampler still alive, so when join_all is ready measure holds
\* the only reference and try_unwrap succeeds; no RefMut of the buffer
\* outlives the closure call that took it, so borrow_mut never finds the
\* buffer borrowed; no run panics.
C20_ExclusiveOwnership ==
    /\ pc # "panicked"
    /\ borrow = 0
    /\ pc = "reactor" => strong = 1 + Cardinality(Pending)
    /\ (pc = "reactor" /\ AllDone(elems)) => strong = 1
    /\ pc \in {"measured", "evaluated", "exited"} => strong = 1

\* measure handed over the buffer of two targets, both of which had written
\* to it
C20_Witness ==
    /\ pc = "measured"
    /\ Len(elems) = 2
    /\ strong = 1
    /\ times = Some(best)
    /\ \A i \in 1 .. 2 : IsSome(best[i])
====
